---------------------------- MODULE Spec2Model ----------------------------
(***************************************************************************)
(* A model of update_readme.py: the event fetcher (fetch_yearly_events),   *)
(* the summarizer (summarize_events), the renderer (generate_summary_text) *)
(* and the document patcher (update_readme), composed by the main block.   *)
(*                                                                         *)
(* Text is a sequence of tokens.  A token is one character ("a", "/",      *)
(* "\\", "\n", a digit), or one of the program's string literals taken as  *)
(* a whole (the two markers, the fixed parts of the rendered lines).  The  *)
(* two markers cannot overlap each other or themselves (no proper suffix   *)
(* of one is a prefix of one), so taking each as one token loses nothing   *)
(* of what the regular expression can match.                               *)
(***************************************************************************)
EXTENDS Integers, Sequences, FiniteSets, TLC

VARIABLES
    feed,           \* the remote feed: page k of the API is feed[k], <<>> past the end
    page,           \* fetch_yearly_events: the page number of the next request
    events,         \* fetch_yearly_events: the events retained so far
    requested,      \* history: the page numbers requested, in order
    requestFailed,  \* history: some request did not come back with status 200
    fetched,        \* main: the value fetch_yearly_events returned
    summary,        \* main: the value summarize_events returned
    file,           \* README.md on disk: [exists, data]
    runs,           \* history: one record per call of update_readme
    exitCode,       \* the process's exit status, -1 while running
    pc              \* where the main block is

vars == <<feed, page, events, requested, requestFailed, fetched, summary,
          file, runs, exitCode, pc>>

(***************************************************************************)
(* Bounds of the model.                                                    *)
(***************************************************************************)
MaxRecords == 3     \* records in the whole feed
MaxPages == 3       \* pages of the feed
MaxEvents == 3      \* events given to summarize_events on its own
MaxDocLen == 4      \* tokens of a starting document

(***************************************************************************)
(* Helpers on sequences.                                                   *)
(***************************************************************************)
SeqsUpTo(S, n) == UNION {[1..k -> S] : k \in 0..n}

Range(s) == {s[i] : i \in 1..Len(s)}

Drop(s, n) == SubSeq(s, n + 1, Len(s))

Take(s, n) == SubSeq(s, 1, n)

(***************************************************************************)
(* Events.  An event is a JSON object: a record whose fields are the keys  *)
(* it has.  created_at is a timestamp string; repo.name is a string (a     *)
(* sequence of characters) or, as JSON allows, a number.                   *)
(***************************************************************************)
ThisYear == 2024

TsCurrent == "2024-03-01T12:00:00Z"
TsPrevious == "2023-12-01T12:00:00Z"
TsNext == "2025-01-01T00:00:00Z"
TsUnparsable == "2024-03-01"

\* datetime.strptime(s, "%Y-%m-%dT%H:%M:%SZ").year, 0 for a ValueError.
strptime_year(s) ==
    CASE s = TsCurrent -> 2024
      [] s = TsPrevious -> 2023
      [] s = TsNext -> 2025
      [] OTHER -> 0

HasCreatedAt(e) == "created_at" \in DOMAIN e

\* event["created_at"] parsed: "ok" or the exception raised.
ParseOutcome(e) ==
    IF ~HasCreatedAt(e) THEN "KeyError"
    ELSE IF strptime_year(e.created_at) = 0 THEN "ValueError"
    ELSE "ok"

EventYear(e) == strptime_year(e.created_at)

Str(chars) == [type |-> "str", v |-> chars]
Num(digits) == [type |-> "int", v |-> digits]

RepoAB == Str(<<"a", "/", "b">>)
RepoCD == Str(<<"c", "/", "d">>)
RepoEsc == Str(<<"c", "\\", "\\", "d">>)
RepoBadEsc == Str(<<"c", "\\", "q">>)
RepoNum == Num(<<"7">>)

Event(ts, name) == [created_at |-> ts, repo |-> [name |-> name]]
EventNoDate(name) == [repo |-> [name |-> name]]
EventNoRepo(ts) == [created_at |-> ts]
EventNoName(ts) == [created_at |-> ts, repo |-> [id |-> 1]]

(***************************************************************************)
(* fetch_yearly_events.                                                    *)
(***************************************************************************)
\* What the API holds at page p: past the feed's end, an empty array.
PageData(f, p) == IF p <= Len(f) THEN f[p] ELSE <<>>

\* PageEvents with the year test >= in place of ==.
RECURSIVE PageEventsNotOlder(_)
PageEventsNotOlder(data) ==
    IF data = <<>> THEN <<>>
    ELSE LET e == Head(data)
             rest == PageEventsNotOlder(Tail(data))
         IN  IF ParseOutcome(e) = "ok" /\ EventYear(e) >= ThisYear
             THEN <<e>> \o rest
             ELSE rest

\* Lines 58-68: the records of a page that are kept.  A record whose date is
\* missing or does not parse is skipped (KeyError, ValueError are caught).
RECURSIVE PageEvents(_)
PageEvents(data) ==
    IF data = <<>> THEN <<>>
    ELSE LET e == Head(data)
             rest == PageEvents(Tail(data))
         IN  IF ParseOutcome(e) = "ok" /\ EventYear(e) = ThisYear
             THEN <<e>> \o rest
             ELSE rest

\* Line 73: any(strptime(e["created_at"]).year < this_year for e in data),
\* evaluated left to right: "true" at the first older record, "raise" when a
\* record before it has no date or one that does not parse (nothing catches
\* it here but the loop's except Exception), "false" at the end.
RECURSIVE AnyOlder(_)
AnyOlder(data) ==
    IF data = <<>> THEN "false"
    ELSE LET e == Head(data)
         IN  IF ParseOutcome(e) # "ok" THEN "raise"
             ELSE IF EventYear(e) < ThisYear THEN "true"
             ELSE AnyOlder(Tail(data))

\* What a request can come back with: a status code, or an exception of
\* requests.get (timeout, connection error) or of resp.json().
Statuses == {200, 403, 404, 500}
RequestErrors == {"RequestException", "JSONDecodeError"}

\* NextPage without the increment.
NextPageSame(p) == p

\* The next page number after a page that neither ends nor aborts the loop
\* (line 76).
NextPage(p) == p + 1

\* FailedRequestResult returning what the earlier pages gave.
FailedRequestKeepsEvents(evs) == evs

\* The value returned when a request does not come back with 200 (line 51).
FailedRequestResult(evs) == <<>>

FetchReturn(result) ==
    /\ fetched' = result
    /\ pc' = "summarize"

\* Lines 40, 53, 78-84: requests.get or resp.json() raises; return [].
FetchRaises(x) ==
    /\ pc = "fetch"
    /\ x \in RequestErrors
    /\ requested' = Append(requested, page)
    /\ requestFailed' = TRUE
    /\ FetchReturn(<<>>)
    /\ UNCHANGED <<feed, page, events, summary, file, runs, exitCode>>

\* Lines 43-51: a status other than 200; return [].
FetchStatus(st) ==
    /\ pc = "fetch"
    /\ st \in Statuses \ {200}
    /\ requested' = Append(requested, page)
    /\ requestFailed' = TRUE
    /\ FetchReturn(FailedRequestResult(events))
    /\ UNCHANGED <<feed, page, events, summary, file, runs, exitCode>>

\* Lines 53-76, 86-87: status 200 and a JSON array.
FetchOk ==
    /\ pc = "fetch"
    /\ requested' = Append(requested, page)
    /\ UNCHANGED <<feed, requestFailed, summary, file, runs, exitCode>>
    /\ LET data == PageData(feed, page)
           kept == events \o PageEvents(data)
       IN  IF data = <<>>
           THEN \* lines 54-56: the feed is exhausted
                /\ FetchReturn(events)
                /\ UNCHANGED <<page, events>>
           ELSE CASE AnyOlder(data) = "true" ->
                       \* lines 73-75: the year boundary
                       /\ events' = kept
                       /\ FetchReturn(kept)
                       /\ UNCHANGED page
                  [] AnyOlder(data) = "raise" ->
                       \* lines 81-84: except Exception, return []
                       /\ events' = kept
                       /\ FetchReturn(<<>>)
                       /\ UNCHANGED page
                  [] OTHER ->
                       \* line 76
                       /\ events' = kept
                       /\ page' = NextPage(page)
                       /\ UNCHANGED <<fetched, pc>>

FetchPage ==
    \/ \E x \in RequestErrors : FetchRaises(x)
    \/ \E st \in Statuses : FetchStatus(st)
    \/ FetchOk

(***************************************************************************)
(* summarize_events.                                                       *)
(***************************************************************************)
\* event["repo"]["name"] is there (otherwise KeyError or TypeError, caught
\* at line 104, and the event adds no name).
HasRepoName(e) == "repo" \in DOMAIN e /\ "name" \in DOMAIN e.repo

\* Lines 98-107: the loop that fills the set repos.
RECURSIVE CollectRepos(_, _)
CollectRepos(evs, repos) ==
    IF evs = <<>> THEN repos
    ELSE LET e == Head(evs)
         IN  IF HasRepoName(e)
             THEN CollectRepos(Tail(evs), repos \cup {e.repo.name})
             ELSE CollectRepos(Tail(evs), repos)

\* TotalEvents counting only the events that have a repo name.
TotalEventsValidOnly(evs) ==
    Cardinality({i \in 1..Len(evs) : HasRepoName(evs[i])})

\* Line 110: "total_events": len(events).
TotalEvents(evs) == Len(evs)

\* Lines 109-116.  (The except of lines 118-125 has nothing to catch: every
\* failure of the loop body is caught inside the loop.)
summarize_events(evs) ==
    LET repos == CollectRepos(evs, {})
    IN  [total_events |-> TotalEvents(evs),
         unique_repos |-> Cardinality(repos),
         repos |-> repos]

(***************************************************************************)
(* generate_summary_text.                                                  *)
(***************************************************************************)
DigitChars == <<"0", "1", "2", "3", "4", "5", "6", "7", "8", "9">>

\* str(n) for n >= 0.
RECURSIVE IntToStr(_)
IntToStr(n) ==
    IF n < 10 THEN <<DigitChars[n + 1]>>
    ELSE IntToStr(n \div 10) \o <<DigitChars[(n % 10) + 1]>>

\* The characters of the model's repository names, in code point order.
CodePointOrder == <<"/", "\\", "a", "b", "c", "d", "n", "q">>

Ord(c) == CHOOSE i \in 1..Len(CodePointOrder) : CodePointOrder[i] = c

\* s < t for two Python strings.
RECURSIVE StrLess(_, _)
StrLess(s, t) ==
    IF t = <<>> THEN FALSE
    ELSE IF s = <<>> THEN TRUE
    ELSE IF Head(s) = Head(t) THEN StrLess(Tail(s), Tail(t))
    ELSE Ord(Head(s)) < Ord(Head(t))

\* sorted() compares only values of one type: a str and an int raise TypeError.
Sortable(repos) == \A x \in repos, y \in repos : x.type = y.type

\* sorted(repos) for names that are all strings (or a single value).
RECURSIVE Sorted(_)
Sorted(repos) ==
    IF repos = {} THEN <<>>
    ELSE LET least == CHOOSE x \in repos :
                          \A y \in repos \ {x} : StrLess(x.v, y.v)
         IN  <<least>> \o Sorted(repos \ {least})

\* "\n".join(lines)
RECURSIVE Join(_)
Join(lines) ==
    IF lines = <<>> THEN <<>>
    ELSE IF Len(lines) = 1 THEN Head(lines)
    ELSE Head(lines) \o <<"\n">> \o Join(Tail(lines))

TotalLine(n) == <<"**Total public events this year:** ">> \o IntToStr(n)
ReposLine(n) == <<"**Repositories contributed to:** ">> \o IntToStr(n)
HeadingLine == <<"## Repositories:">>
BulletLine(repo) == <<"- ">> \o repo.v
NoReposLine == <<"- No repositories found">>
ErrorText == <<"**Error generating summary**">>

\* Lines 137-140: the bullet lines.
RepoLines(repos) ==
    IF repos # {}
    THEN LET names == Sorted(repos)
         IN  [i \in 1..Len(names) |-> BulletLine(names[i])]
    ELSE <<NoReposLine>>

\* Lines 129-149.
generate_summary_text(s) ==
    IF ~Sortable(s.repos)
    THEN ErrorText
    ELSE Join(<<TotalLine(s.total_events), ReposLine(s.unique_repos), HeadingLine>>
              \o RepoLines(s.repos))

(***************************************************************************)
(* The regular expression of update_readme: START_MARKER.*?END_MARKER with *)
(* re.DOTALL, and the replacement template of pattern.sub.                 *)
(***************************************************************************)
START_MARKER == "<!-- GITHUB_SUMMARY_START -->"
END_MARKER == "<!-- GITHUB_SUMMARY_END -->"

\* The first index >= from that holds tok, 0 when there is none.
IndexFrom(text, tok, from) ==
    IF \E i \in from..Len(text) : text[i] = tok
    THEN CHOOSE i \in from..Len(text) :
             text[i] = tok /\ \A k \in from..(i - 1) : text[k] # tok
    ELSE 0

\* The leftmost match of the pattern: it starts at the first start marker
\* and, the quantifier being lazy, ends at the first end marker after it.
\* With no end marker after the first start marker no later start marker
\* has one either.  [found, first, last]
Search(text) ==
    LET i == IndexFrom(text, START_MARKER, 1)
        j == IF i = 0 THEN 0 ELSE IndexFrom(text, END_MARKER, i + 1)
    IN  [found |-> i # 0 /\ j # 0, first |-> i, last |-> j]

\* The escapes a replacement template turns into one character.
TemplateEscapes == {"a", "b", "f", "n", "r", "t", "v", "\\"}

EscapeChar(c) ==
    CASE c = "n" -> "\n"
      [] c = "t" -> "\t"
      [] c = "r" -> "\r"
      [] c = "f" -> "\f"
      [] c = "a" -> "<0x07>"
      [] c = "b" -> "<0x08>"
      [] c = "v" -> "<0x0B>"
      [] OTHER -> "\\"

AsciiLetters == {"a", "b", "c", "d", "f", "g", "n", "q", "r", "t", "v"}

\* What re does with the replacement string before it substitutes: after a
\* backslash, a known escape becomes its character, \g and a digit refer to
\* a group (the pattern has none: re.error; \0 is the NUL character), any
\* other ASCII letter is a bad escape (re.error), anything else stays as it
\* is, backslash included.  [ok, text]
RECURSIVE ExpandTemplate(_)
ExpandTemplate(repl) ==
    IF repl = <<>> THEN [ok |-> TRUE, text |-> <<>>]
    ELSE IF Head(repl) # "\\"
    THEN LET rest == ExpandTemplate(Tail(repl))
         IN  [ok |-> rest.ok, text |-> <<Head(repl)>> \o rest.text]
    ELSE IF Len(repl) = 1 THEN [ok |-> FALSE, text |-> <<>>]
    ELSE LET c == repl[2]
             rest == ExpandTemplate(Drop(repl, 2))
         IN  IF c \in TemplateEscapes
             THEN [ok |-> rest.ok, text |-> <<EscapeChar(c)>> \o rest.text]
             ELSE IF c = "0"
             THEN [ok |-> rest.ok, text |-> <<"<0x00>">> \o rest.text]
             ELSE IF c \in Range(DigitChars) \/ c \in AsciiLetters
             THEN [ok |-> FALSE, text |-> <<>>]
             ELSE [ok |-> rest.ok, text |-> <<"\\", c>> \o rest.text]

\* pattern.sub(replacement, content) with the template already expanded:
\* every match, left to right, each search starting after the last match.
RECURSIVE SubAll(_, _)
SubAll(text, expanded) ==
    LET m == Search(text)
    IN  IF ~m.found THEN text
        ELSE Take(text, m.first - 1) \o expanded
             \o SubAll(Drop(text, m.last), expanded)

\* Line 184: the replacement string.
Replacement(summaryText) ==
    <<START_MARKER, "\n">> \o summaryText \o <<"\n", END_MARKER>>

\* Appended with one newline between the content and the block.
AppendedOneNewline(content, replacement) == content \o <<"\n">> \o replacement

\* Line 191: content + "\n\n" + replacement.
Appended(content, replacement) == content \o <<"\n", "\n">> \o replacement

\* Lines 186-191: the new content, or re.error out of pattern.sub.
\* [raised, text]
Merge(content, summaryText) ==
    LET replacement == Replacement(summaryText)
    IN  IF Search(content).found
        THEN LET t == ExpandTemplate(replacement)
             IN  IF t.ok
                 THEN [raised |-> FALSE, text |-> SubAll(content, t.text)]
                 ELSE [raised |-> TRUE, text |-> <<>>]
        ELSE [raised |-> FALSE, text |-> Appended(content, replacement)]

(***************************************************************************)
(* README.md on disk.  The file's data is a sequence of bytes: an ASCII    *)
(* character or a literal of the program stands for its own bytes, and     *)
(* "<0xFF>", "<0xC3>", "<0xBF>" are single bytes.  "U+00FF" is the         *)
(* character whose UTF-8 encoding is C3 BF and whose Latin-1 encoding is   *)
(* FF.  The starting documents of the model hold no other byte above 7F    *)
(* and no "\r" (text mode would read it as "\n").                          *)
(***************************************************************************)
MissingFile == [exists |-> FALSE, data |-> <<>>]
FileWith(bytes) == [exists |-> TRUE, data |-> bytes]

\* f.read() of a file opened with encoding='utf-8'.  [ok, text]; not ok is
\* UnicodeDecodeError.
RECURSIVE Utf8Decode(_)
Utf8Decode(bytes) ==
    IF bytes = <<>> THEN [ok |-> TRUE, text |-> <<>>]
    ELSE LET b == Head(bytes)
         IN  IF b = "<0xC3>" /\ Len(bytes) >= 2 /\ bytes[2] = "<0xBF>"
             THEN LET rest == Utf8Decode(Drop(bytes, 2))
                  IN  [ok |-> rest.ok, text |-> <<"U+00FF">> \o rest.text]
             ELSE IF b \in {"<0xFF>", "<0xC3>", "<0xBF>"}
             THEN [ok |-> FALSE, text |-> <<>>]
             ELSE LET rest == Utf8Decode(Tail(bytes))
                  IN  [ok |-> rest.ok, text |-> <<b>> \o rest.text]

\* f.read() of a file opened with encoding='latin-1': every byte is a
\* character, so it cannot fail to decode.
Latin1Char(b) ==
    CASE b = "<0xFF>" -> "U+00FF"
      [] b = "<0xC3>" -> "U+00C3"
      [] b = "<0xBF>" -> "U+00BF"
      [] OTHER -> b

Latin1Decode(bytes) == [i \in 1..Len(bytes) |-> Latin1Char(bytes[i])]

\* f.write(text) to a file opened with encoding='utf-8'.
RECURSIVE Utf8Encode(_)
Utf8Encode(text) ==
    IF text = <<>> THEN <<>>
    ELSE LET c == Head(text)
             enc == CASE c = "U+00FF" -> <<"<0xC3>", "<0xBF>">>
                      [] c = "U+00C3" -> <<"<0xC3>", "<0x83>">>
                      [] c = "U+00BF" -> <<"<0xC2>", "<0xBF>">>
                      [] OTHER -> <<c>>
         IN  enc \o Utf8Encode(Tail(text))

\* What opening or reading, and opening or writing, can do.
IoOutcomes == {"ok", "OSError"}

\* The content a failed read leaves update_readme with (lines 175, 178).
ContentOnReadError == <<>>

\* ReadLatin1 giving up after the decoding error.
ReadLatin1Empty(f, rd2) == [how |-> "latin-1", content |-> ContentOnReadError]

\* The content after UnicodeDecodeError (lines 166-175): a second read, as
\* latin-1.
ReadLatin1(f, rd2) ==
    IF rd2 = "OSError"
    THEN [how |-> "latin-1 failed", content |-> ContentOnReadError]
    ELSE [how |-> "latin-1", content |-> Latin1Decode(f.data)]

\* Lines 157-178: the content update_readme works on.  rd is what the first
\* open/read does, rd2 what the second does.  [how, content]
ReadContent(f, rd, rd2) ==
    IF ~f.exists THEN [how |-> "missing", content |-> <<>>]
    ELSE IF rd = "OSError"
    THEN [how |-> "error", content |-> ContentOnReadError]
    ELSE IF Utf8Decode(f.data).ok
    THEN [how |-> "utf-8", content |-> Utf8Decode(f.data).text]
    ELSE ReadLatin1(f, rd2)

\* Lines 151-205.  [before, how, content, written, write, raised, after]:
\* written is new_content, write what the write did, raised is "none" or
\* the exception update_readme re-raises, after is the file it leaves.
update_readme(f, s, rd, rd2, wr) ==
    LET r == ReadContent(f, rd, rd2)
        m == Merge(r.content, generate_summary_text(s))
        raised == IF m.raised THEN "re.error"
                  ELSE IF wr = "OSError" THEN "OSError"
                  ELSE "none"
    IN  [before |-> f, how |-> r.how, content |-> r.content,
         written |-> m.text,
         write |-> IF m.raised THEN "not attempted" ELSE wr,
         raised |-> raised,
         after |-> IF raised = "none" THEN FileWith(Utf8Encode(m.text)) ELSE f]

(***************************************************************************)
(* The main block, lines 207-228.                                          *)
(***************************************************************************)
\* Line 217.
Summarize ==
    /\ pc = "summarize"
    /\ summary' = summarize_events(fetched)
    /\ pc' = "update"
    /\ UNCHANGED <<feed, page, events, requested, requestFailed, fetched,
                   file, runs, exitCode>>

\* The exit status: 1 from exit(1) at line 228, 0 when the script runs off
\* its end.
ExitStatus(raised) == IF raised = "none" THEN 0 ELSE 1

\* Lines 218-228.
UpdateReadme ==
    /\ pc = "update"
    /\ \E rd \in IoOutcomes, rd2 \in IoOutcomes, wr \in IoOutcomes :
          LET u == update_readme(file, summary, rd, rd2, wr)
          IN  /\ file' = u.after
              /\ runs' = Append(runs, u)
              /\ exitCode' = ExitStatus(u.raised)
    /\ pc' = "done"
    /\ UNCHANGED <<feed, page, events, requested, requestFailed, fetched,
                   summary>>

(***************************************************************************)
(* update_readme called on its own, twice in a row with one summary.       *)
(***************************************************************************)
PatchCall(from, to) ==
    /\ pc = from
    /\ \E rd \in IoOutcomes, rd2 \in IoOutcomes, wr \in IoOutcomes :
          LET u == update_readme(file, summary, rd, rd2, wr)
          IN  /\ file' = u.after
              /\ runs' = Append(runs, u)
    /\ pc' = to
    /\ UNCHANGED <<feed, page, events, requested, requestFailed, fetched,
                   summary, exitCode>>

PatchOnce == PatchCall("patch", "patch again")

PatchAgain == PatchCall("patch again", "patched")

(***************************************************************************)
(* Inputs.                                                                 *)
(***************************************************************************)
RECURSIVE Sum(_)
Sum(ns) == IF ns = <<>> THEN 0 ELSE Head(ns) + Sum(Tail(ns))

\* The records rs cut into pages of the lengths ls.
RECURSIVE Paged(_, _)
Paged(rs, ls) ==
    IF ls = <<>> THEN <<>>
    ELSE <<Take(rs, Head(ls))>> \o Paged(Drop(rs, Head(ls)), Tail(ls))

\* The page lengths of the feeds of at most m pages (empty pages among
\* them) holding at most k records in all.
FeedShapes(k, m) == {ls \in SeqsUpTo(0..k, m) : Sum(ls) <= k}

FetchRecords ==
    {Event(TsCurrent, RepoAB), Event(TsCurrent, RepoCD),
     Event(TsPrevious, RepoAB), Event(TsNext, RepoAB),
     Event(TsUnparsable, RepoAB), EventNoDate(RepoAB)}

SummarizeRecords ==
    {Event(TsCurrent, RepoAB), Event(TsCurrent, RepoCD),
     Event(TsCurrent, RepoNum), EventNoRepo(TsCurrent),
     EventNoName(TsCurrent)}

FullRunPages ==
    {<<Event(TsCurrent, RepoAB)>>,
     <<Event(TsCurrent, RepoBadEsc), Event(TsCurrent, RepoAB)>>,
     <<Event(TsCurrent, RepoNum), EventNoRepo(TsCurrent)>>,
     <<Event(TsPrevious, RepoCD)>>,
     <<EventNoDate(RepoAB)>>}

FullRunFiles ==
    {MissingFile, FileWith(<<>>), FileWith(<<"x">>),
     FileWith(<<START_MARKER>>),
     FileWith(<<START_MARKER, "x", END_MARKER>>),
     FileWith(<<"x", START_MARKER, END_MARKER, "x">>),
     FileWith(<<"<0xFF>", START_MARKER, END_MARKER>>)}

DocBytes == {START_MARKER, END_MARKER, "x", "<0xFF>"}

\* The starting files of update_readme on its own: no file, or any document
\* of at most MaxDocLen bytes of DocBytes.
IsPatchFile(f) ==
    \/ f = MissingFile
    \/ \E n \in 0..MaxDocLen : \E d \in [1..n -> DocBytes] : f = FileWith(d)

\* Summaries whose names are ones GitHub gives a repository.
PlainSummaries ==
    {summarize_events(<<>>),
     summarize_events(<<Event(TsCurrent, RepoAB)>>),
     summarize_events(<<Event(TsCurrent, RepoCD), Event(TsCurrent, RepoAB),
                        Event(TsCurrent, RepoCD)>>)}

\* And summaries whose names hold a backslash, or are not all strings.
PatchSummaries ==
    PlainSummaries \cup
    {summarize_events(<<Event(TsCurrent, RepoEsc)>>),
     summarize_events(<<Event(TsCurrent, RepoBadEsc)>>),
     summarize_events(<<Event(TsCurrent, RepoNum), Event(TsCurrent, RepoAB)>>)}

(***************************************************************************)
(* Specifications.                                                         *)
(***************************************************************************)
InitLocals ==
    /\ page = 1
    /\ events = <<>>
    /\ requested = <<>>
    /\ requestFailed = FALSE
    /\ runs = <<>>
    /\ exitCode = -1

\* A whole run of the script.
Init ==
    /\ InitLocals
    /\ \E n \in 0..MaxPages : feed \in [1..n -> FullRunPages]
    /\ file \in FullRunFiles
    /\ fetched = <<>>
    /\ summary = summarize_events(<<>>)
    /\ pc = "fetch"

Next == FetchPage \/ Summarize \/ UpdateReadme

Spec == Init /\ [][Next]_vars

\* fetch_yearly_events on its own, over every feed within the bounds.
InitFetch ==
    /\ InitLocals
    /\ \E ls \in FeedShapes(MaxRecords, MaxPages) :
          \E rs \in [1..Sum(ls) -> FetchRecords] : feed = Paged(rs, ls)
    /\ file = MissingFile
    /\ fetched = <<>>
    /\ summary = summarize_events(<<>>)
    /\ pc = "fetch"

NextFetch == FetchPage

SpecFetch == InitFetch /\ [][NextFetch]_vars

\* The loop always goes on: nothing but the loop itself stops it.
FairSpecFetch == SpecFetch /\ WF_vars(NextFetch)

\* summarize_events on its own.
InitSummarize ==
    /\ InitLocals
    /\ feed = <<>>
    /\ file = MissingFile
    /\ \E n \in 0..MaxEvents : fetched \in [1..n -> SummarizeRecords]
    /\ summary = summarize_events(<<>>)
    /\ pc = "summarize"

NextSummarize == Summarize

SpecSummarize == InitSummarize /\ [][NextSummarize]_vars

\* update_readme on its own, twice.
InitPatch ==
    /\ InitLocals
    /\ feed = <<>>
    /\ IsPatchFile(file)
    /\ fetched = <<>>
    /\ summary \in PatchSummaries
    /\ pc = "patch"

NextPatch == PatchOnce \/ PatchAgain

SpecPatch == InitPatch /\ [][NextPatch]_vars

\* The same with the summaries of ordinary repository names only.
InitPatchPlain ==
    /\ InitLocals
    /\ feed = <<>>
    /\ IsPatchFile(file)
    /\ fetched = <<>>
    /\ summary \in PlainSummaries
    /\ pc = "patch"

SpecPatchPlain == InitPatchPlain /\ [][NextPatch]_vars

(***************************************************************************)
(* Properties.  What follows states the claims; it uses the model above    *)
(* and its own, independent, readings of "well-formed", "span" and so on.  *)
(***************************************************************************)
IsWellFormed(e) ==
    /\ "created_at" \in DOMAIN e
    /\ e.created_at \in {TsCurrent, TsPrevious, TsNext}

IsCurrentYear(e) == IsWellFormed(e) /\ strptime_year(e.created_at) = ThisYear

IsOlder(e) == IsWellFormed(e) /\ strptime_year(e.created_at) < ThisYear

AllWellFormed(f) ==
    \A k \in 1..Len(f) : \A i \in 1..Len(f[k]) : IsWellFormed(f[k][i])

\* Page k ends the pagination: it is empty or holds an older record.
StopsAt(f, k) ==
    \/ PageData(f, k) = <<>>
    \/ \E i \in 1..Len(PageData(f, k)) : IsOlder(PageData(f, k)[i])

\* The well-formed current-year records of pages 1..n, in encounter order.
RECURSIVE FlatCurrent(_, _)
FlatCurrent(f, n) ==
    IF n = 0 THEN <<>>
    ELSE FlatCurrent(f, n - 1) \o SelectSeq(PageData(f, n), IsCurrentYear)

NonEmptyPages(f) == Cardinality({k \in 1..Len(f) : f[k] # <<>>})

ValidNames(evs) ==
    {evs[i].repo.name : i \in {k \in 1..Len(evs) : HasRepoName(evs[k])}}

HasSpan(c) ==
    \E i \in 1..Len(c), j \in 1..Len(c) :
        i < j /\ c[i] = START_MARKER /\ c[j] = END_MARKER

\* Where the first span starts and ends.
SpanStart(c) ==
    CHOOSE i \in 1..Len(c) :
        /\ c[i] = START_MARKER
        /\ \E j \in (i + 1)..Len(c) : c[j] = END_MARKER
        /\ \A k \in 1..(i - 1) :
              ~(c[k] = START_MARKER /\ \E j \in (k + 1)..Len(c) : c[j] = END_MARKER)

SpanEnd(c) ==
    CHOOSE j \in (SpanStart(c) + 1)..Len(c) :
        /\ c[j] = END_MARKER
        /\ \A k \in (SpanStart(c) + 1)..(j - 1) : c[k] # END_MARKER

\* start-marker, newline, rendered summary, newline, end-marker
Block(s) ==
    <<START_MARKER, "\n">> \o generate_summary_text(s) \o <<"\n", END_MARKER>>

\* The block of a summary of zero events, spelled out.
ZeroBlock ==
    <<START_MARKER, "\n",
      "**Total public events this year:** ", "0", "\n",
      "**Repositories contributed to:** ", "0", "\n",
      "## Repositories:", "\n",
      "- No repositories found", "\n",
      END_MARKER>>

ContainsBlock(text, block) ==
    \E i \in 0..(Len(text) - Len(block)) :
        SubSeq(text, i + 1, i + Len(block)) = block

Contains(s, x) == \E i \in 1..Len(s) : s[i] = x

Count(text, tok) == Cardinality({i \in 1..Len(text) : text[i] = tok})

\* C1 (as claimed): idempotence of update_readme.  For every starting
\* document and every summary, when both calls complete and the second
\* reads what the first wrote, the second call leaves the document the
\* first call left.
C1_Idempotent ==
    (/\ pc = "patched"
     /\ runs[1].raised = "none"
     /\ runs[2].raised = "none"
     /\ runs[2].how = "utf-8")
        => runs[2].after = runs[1].after

\* C2 (as claimed): marker-region isolation.  When the content holds a
\* span and the write does not fail, the new content is the text before the
\* first span, then the block, then the text after the first span, later
\* spans included, unchanged.
C2_OnlyFirstSpanReplaced ==
    \A k \in 1..Len(runs) :
        LET r == runs[k]
            c == r.content
        IN  (HasSpan(c) /\ r.write # "OSError") =>
               /\ r.raised = "none"
               /\ r.written = Take(c, SpanStart(c) - 1) \o Block(summary)
                               \o Drop(c, SpanEnd(c))

\* C3 (as claimed): total_events is the number of events left once those
\* with no repo name are filtered out, unique_repos the number of distinct
\* valid names, and no events give 0, 0 and the empty set.
C3_TotalCountsValidOnly ==
    pc = "update" =>
       /\ summary.total_events
            = Cardinality({i \in 1..Len(fetched) : HasRepoName(fetched[i])})
       /\ summary.unique_repos = Cardinality(ValidNames(fetched))
       /\ fetched = <<>> =>
             summary = [total_events |-> 0, unique_repos |-> 0, repos |-> {}]

\* C3 (amended): total_events is the number of input events, those with no
\* repo name included; unique_repos is the number of distinct valid names,
\* repos is the set of them, and no events give 0, 0 and the empty set.
C3_SummarizerCounts ==
    pc = "update" =>
       /\ summary.total_events = Len(fetched)
       /\ summary.unique_repos = Cardinality(ValidNames(fetched))
       /\ summary.repos = ValidNames(fetched)
       /\ fetched = <<>> =>
             summary = [total_events |-> 0, unique_repos |-> 0, repos |-> {}]

C3_Witness ==
    /\ pc = "update"
    /\ Len(fetched) = 3
    /\ \E i \in 1..3 : ~HasRepoName(fetched[i])
    /\ \E i \in 1..3, j \in 1..3 :
          i < j /\ HasRepoName(fetched[i]) /\ HasRepoName(fetched[j])
          /\ fetched[i].repo.name = fetched[j].repo.name
    /\ summary.unique_repos = 1

\* C4 (as claimed): malformed records do not abort the page.  When every
\* request succeeds, a record with a missing or unparsable created_at is
\* skipped: the value returned is the well-formed current-year records of
\* the pages requested, and the pagination stops where it would have, at
\* the first page that is empty or holds an older record.
C4_MalformedRecordsSkipped ==
    (pc # "fetch" /\ ~requestFailed) =>
       LET n == Len(requested)
       IN  /\ fetched = FlatCurrent(feed, n)
           /\ StopsAt(feed, n)
           /\ \A k \in 1..(n - 1) : ~StopsAt(feed, k)

\* C5: year-boundary pagination.  Pages are requested in the order 1, 2,
\* 3, ...; when every request succeeds and every record is well-formed, no
\* page is requested after the first that is empty or holds an older
\* record, and the value returned is the current-year records of the pages
\* requested, in encounter order.
C5_YearBoundaryPagination ==
    LET n == Len(requested)
    IN  /\ \A k \in 1..n : requested[k] = k
        /\ (~requestFailed /\ AllWellFormed(feed)) =>
              /\ \A k \in 1..(n - 1) : ~StopsAt(feed, k)
              /\ pc = "fetch" => page = n + 1
              /\ pc # "fetch" =>
                    /\ n >= 1
                    /\ StopsAt(feed, n)
                    /\ fetched = FlatCurrent(feed, n)

C5_Witness ==
    /\ pc = "summarize"
    /\ ~requestFailed
    /\ AllWellFormed(feed)
    /\ requested = <<1, 2>>
    /\ Len(feed) = 2
    /\ Len(feed[2]) = 2
    /\ IsOlder(feed[2][1])
    /\ IsCurrentYear(feed[2][2])
    /\ Len(fetched) = 1
    /\ \E i \in 1..Len(feed[1]) : ~IsCurrentYear(feed[1][i])

\* C6 (as claimed): fail-soft fetch, end to end.  Once a request has not
\* come back with a success status, fetch_yearly_events returns the empty
\* sequence whatever earlier pages contributed, and the run ends with the
\* success outcome and the zero-events block in the document.
C6_FailSoftAlwaysSucceeds ==
    requestFailed =>
       /\ pc # "fetch" => fetched = <<>>
       /\ pc = "done" =>
             /\ exitCode = 0
             /\ file.exists
             /\ ContainsBlock(file.data, ZeroBlock)

\* C6 (amended): once a request has not come back with a success status,
\* fetch_yearly_events returns the empty sequence whatever earlier pages
\* contributed, the summary is that of zero events, and, unless the write
\* of the document fails, the run ends with the success outcome and the
\* zero-events block in the document; it ends with the failure outcome only
\* when the write fails.
C6_FailSoftFetch ==
    requestFailed =>
       /\ pc # "fetch" => fetched = <<>>
       /\ pc \in {"update", "done"} =>
             summary = [total_events |-> 0, unique_repos |-> 0, repos |-> {}]
       /\ pc = "done" =>
             /\ runs[1].write # "OSError" =>
                   /\ exitCode = 0
                   /\ file.exists
                   /\ ContainsBlock(file.data, ZeroBlock)
             /\ exitCode # 0 => runs[1].write = "OSError"

C6_Witness ==
    /\ pc = "done"
    /\ requestFailed
    /\ Len(requested) >= 2
    /\ events # <<>>
    /\ fetched = <<>>
    /\ exitCode = 0
    /\ runs[1].before.exists
    /\ HasSpan(runs[1].content)

\* C7 (as claimed): only the write stage can abort a run.  A run ends with
\* the non-zero exit status if and only if the write of the document
\* failed, and every other run ends with status 0 and a written document.
C7_OnlyWriteAborts ==
    pc = "done" =>
       /\ exitCode = 1 <=> runs[1].write = "OSError"
       /\ runs[1].write # "OSError" =>
             /\ exitCode = 0
             /\ file = FileWith(Utf8Encode(runs[1].written))

\* C8: the missing-markers case.  When the content holds no span (a
\* missing file being read as the empty string), pattern.sub is not used,
\* and the new content is the content, two newlines and one block; what is
\* written starts with the document as it was.
C8_MissingMarkersAppend ==
    \A k \in 1..Len(runs) :
        LET r == runs[k]
        IN  ~HasSpan(r.content) =>
               /\ r.raised # "re.error"
               /\ r.how = "missing" => r.content = <<>>
               /\ r.how = "utf-8" => Utf8Encode(r.content) = r.before.data
               /\ r.raised = "none" =>
                     /\ r.written = r.content \o <<"\n", "\n">> \o Block(summary)
                     /\ Count(r.written, START_MARKER)
                          = Count(r.content, START_MARKER) + 1
                     /\ r.after = FileWith(Utf8Encode(r.written))
                     /\ r.how \in {"missing", "utf-8"} =>
                           Take(r.after.data, Len(r.before.data)) = r.before.data

C8_Witness ==
    /\ pc = "patched"
    /\ runs[1].how = "utf-8"
    /\ Len(runs[1].content) = 3
    /\ Count(runs[1].content, END_MARKER) = 1
    /\ Count(runs[1].content, START_MARKER) = 1
    /\ ~HasSpan(runs[1].content)
    /\ runs[1].raised = "none"
    /\ summary.unique_repos = 2

C10_RequestsBounded ==
    /\ Len(requested) <= NonEmptyPages(feed) + 1
    /\ \A i \in 1..Len(requested), j \in 1..Len(requested) :
          i # j => requested[i] # requested[j]

C10_PaginationTerminates == <>(pc # "fetch") /\ []C10_RequestsBounded

C10_Witness ==
    /\ pc # "fetch"
    /\ ~requestFailed
    /\ NonEmptyPages(feed) = 3
    /\ Len(requested) = 4

=============================================================================
